---- MODULE Spec2Model ----
(***************************************************************************)
(* tgiistat: a client that authenticates to a TGiiNet-1 modem with SRP and *)
(* fetches one statistics page (src/tgiistat.py).                          *)
(*                                                                         *)
(* The state is the position of the one thread of control (pc), the        *)
(* Fetcher object (config, session), the locals of Fetcher.connect, the    *)
(* cookie jars of the requests.Session objects, and the log of the HTTP    *)
(* exchanges of the fetch call in progress (wire).  The modem and the      *)
(* local files are the environment: every response and every file content *)
(* is drawn from a small set.                                              *)
(*                                                                         *)
(* Text is a sequence of one-character strings, so that len(), hex         *)
(* decoding and the unit suffixes are computed and not assumed.            *)
(***************************************************************************)
EXTENDS Integers, Sequences, FiniteSets, TLC

VARIABLES
  pc,          \* position of the thread of control
  caller,      \* "main" (the script) or "lib" (a program that keeps the Fetcher)
  args,        \* the parsed command line: [parse, json]
  config,      \* Fetcher.config: [address, username, password]
  top_url,     \* Fetcher.top_url, empty while no Fetcher exists
  fsession,    \* Fetcher.session: a session id, 0 for None
  jar,         \* jar[sid]: the cookies held by requests.Session number sid
  cur,         \* connect's local `session`: a session id, 0 outside connect
  csrf,        \* connect's local `csrf`
  srp_user,    \* connect's local `srp_user`
  proof,       \* connect's local `M` (hex), after process_challenge
  wire,        \* the HTTP exchanges of the current fetch call, in order
  calls,       \* number of Fetcher.fetch calls started
  entropy,     \* number of draws made from the random source
  err,         \* the exception that ended the last operation, or NoError
  page,        \* stats_page / the value returned by Fetcher.fetch
  stats,       \* the mapping returned by parse
  stdout,      \* what was printed
  exitStatus   \* the exit status of the process, -1 while it runs

vars == <<pc, caller, args, config, top_url, fsession, jar, cur, csrf, srp_user, proof,
          wire, calls, entropy, err, page, stats, stdout, exitStatus>>

----------------------------------------------------------------------------
(* Bounds of the model *)

\* fetch calls a long-lived caller makes on one Fetcher
MaxFetchCalls == 2

(* Program constants *)
CsrfLen == 64
HttpOk == 200

----------------------------------------------------------------------------
(* Text *)

Rep(c, n) == [i \in 1..n |-> c]

Text_none == <<>>

\* binascii.unhexlify: two hex digits per byte, either case
HexDigits ==
  {"0","1","2","3","4","5","6","7","8","9","a","b","c","d","e","f",
   "A","B","C","D","E","F"}

HexVal(c) ==
  CASE c = "0" -> 0  [] c = "1" -> 1  [] c = "2" -> 2  [] c = "3" -> 3
    [] c = "4" -> 4  [] c = "5" -> 5  [] c = "6" -> 6  [] c = "7" -> 7
    [] c = "8" -> 8  [] c = "9" -> 9
    [] c \in {"a","A"} -> 10 [] c \in {"b","B"} -> 11 [] c \in {"c","C"} -> 12
    [] c \in {"d","D"} -> 13 [] c \in {"e","E"} -> 14 [] c \in {"f","F"} -> 15
    [] OTHER -> 0

IsHex(t) == Len(t) % 2 = 0 /\ \A i \in 1..Len(t) : t[i] \in HexDigits

Unhexlify(t) ==
  [i \in 1..(Len(t) \div 2) |-> 16 * HexVal(t[2*i - 1]) + HexVal(t[2*i])]

RECURSIVE BytesToLong(_)
BytesToLong(b) ==
  IF Len(b) = 0 THEN 0
  ELSE 256 * BytesToLong(SubSeq(b, 1, Len(b) - 1)) + b[Len(b)]

----------------------------------------------------------------------------
(* Exceptions *)

NoError == [type |-> "none", msg |-> "", code |-> 0, text |-> Text_none]

\* raise Exception(msg % detail): the detail is a status code or a text
Exc(type, msg, code, text) == [type |-> type, msg |-> msg, code |-> code, text |-> text]

----------------------------------------------------------------------------
(* JSON bodies, as Response.json() decodes them: the modem's replies to    *)
(* /authenticate are JSON objects, or not JSON at all                      *)

NotJson == [kind |-> "notjson"]
JObject(f) == [kind |-> "object", fields |-> f]

\* Python's `key in j` and j[key] on a decoded object
In(key, j) == j.kind = "object" /\ key \in DOMAIN j.fields

----------------------------------------------------------------------------
(* The srp library, as connect uses it *)

NoneVal == [kind |-> "None"]

\* The modulus N of the group NG_2048, scaled down to a prime of one byte
SrpN == 23

\* The SRP-6a safety check on B is made inside process_challenge; connect
\* does not repeat it.  The pure-Python implementation of the library tests
\* B mod N = 0; the ctypes implementation, whose BN_hex2bn line 62 calls,
\* tests BN_is_zero(B).  The library is not part of the source, so a run may
\* get either check.
SafetyChecks == {"B = 0", "B mod N = 0"}

\* srp.User(username, password, hash_alg=SHA256, ng_type=NG_2048): draws the
\* secret exponent a and derives k = H(N, g)
SrpUser(I, p, a, check) ==
  [kind |-> "User", I |-> I, p |-> p, a |-> a, k |-> "derived", check |-> check]

\* faulty variant: the user keeps the k it derived
SetDeviceKNot(u) == u

\* srp._mod.BN_hex2bn(srp_user.k, b'05b9...'): the modem's own k
SetDeviceK(u) == [u EXCEPT !.k = "device"]

\* A = g^a mod N, as bytes
PubA(a) == [kind |-> "bytes", g_pow |-> a]

\* srp_user.start_authentication() = (I, A)
StartAuthentication(u) == <<u.I, PubA(u.a)>>

\* srp_user.process_challenge(s, B): None on the SRP-6a safety check, else
\* M = H(H(N) xor H(g), H(I), s, A, B, K), K from the password, a, B, s, k
ProcessChallenge(u, s, B) ==
  IF BytesToLong(B) = 0 THEN NoneVal
  ELSE IF u.check = "B mod N = 0" /\ BytesToLong(B) % SrpN = 0 THEN NoneVal
  ELSE [kind |-> "bytes",
        H |-> [I |-> u.I, p |-> u.p, s |-> s, a |-> u.a, B |-> B, k |-> u.k]]

\* binascii.hexlify of bytes the model keeps symbolic
Hexlify(b) == [kind |-> "hex", of |-> b]

----------------------------------------------------------------------------
(* The statistics page and parse *)

\* A text node of the page: a number or some other word, then a unit suffix
\* ("" for none).  Numbers are kept in tenths.
Node(isnum, val, unit) == [isnum |-> isnum, val |-> val, unit |-> unit]

\* A row of the page: the element two levels above the title string, with
\* the other strings below it in document order
Row(title, nodes) == [title |-> title, nodes |-> nodes]

\* re.compile(unit) searched in a string: the unit occurs in it ("dB" occurs
\* in "dBm")
UnitOccurs(unit, n) == n.unit = unit \/ (unit = "dB" /\ n.unit = "dBm")

\* float(t.replace(unit, '').strip()) succeeds when what is left is a number
FloatOk(unit, n) == n.isnum /\ n.unit = unit

RECURSIVE Filter(_, _)
Filter(nodes, unit) ==
  IF nodes = <<>> THEN <<>>
  ELSE IF UnitOccurs(unit, Head(nodes))
       THEN <<Head(nodes)>> \o Filter(Tail(nodes), unit)
       ELSE Filter(Tail(nodes), unit)

\* soup.find_all(string=title): the rows whose title string is `title`
RowsTitled(doc, title) == SelectSeq(doc, LAMBDA r : r.title = title)

\* faulty variant: a pair that is not found is given as zeros
FetchPairDefault(doc, title, unit) ==
  LET lr == RowsTitled(doc, title)
      updown == Filter(lr[1].nodes, unit)
      fail(type) == [err |-> Exc(type, title, 0, Text_none), up |-> 0, down |-> 0]
  IN IF lr = <<>> \/ Len(updown) < 2 THEN [err |-> NoError, up |-> 0, down |-> 0]
     ELSE IF \E i \in 1..2 : ~FloatOk(unit, updown[i]) THEN fail("ValueError")
     ELSE IF Len(updown) > 2 THEN fail("ValueError")
     ELSE [err |-> NoError, up |-> updown[1].val, down |-> updown[2].val]

\* faulty variant: the smaller value is taken as upstream
FetchPairSorted(doc, title, unit) ==
  LET lr == RowsTitled(doc, title)
      updown == Filter(lr[1].nodes, unit)
      fail(type) == [err |-> Exc(type, title, 0, Text_none), up |-> 0, down |-> 0]
  IN IF lr = <<>> THEN fail("IndexError")
     ELSE IF Len(updown) # 2 THEN fail("ValueError")
     ELSE IF \E i \in 1..2 : ~FloatOk(unit, updown[i]) THEN fail("ValueError")
     ELSE [err |-> NoError,
           up |-> IF updown[1].val < updown[2].val THEN updown[1].val ELSE updown[2].val,
           down |-> IF updown[1].val < updown[2].val THEN updown[2].val ELSE updown[1].val]

\* fetch_pair(title, unit) unpacked into two targets
FetchPair(doc, title, unit) ==
  LET lr == RowsTitled(doc, title)
      updown == Filter(lr[1].nodes, unit)
      fail(type) == [err |-> Exc(type, title, 0, Text_none), up |-> 0, down |-> 0]
  IN IF lr = <<>> THEN fail("IndexError")
     ELSE IF Len(updown) < 2 THEN fail("ValueError")
     ELSE IF \E i \in 1..2 : ~FloatOk(unit, updown[i]) THEN fail("ValueError")
     ELSE IF Len(updown) > 2 THEN fail("ValueError")
     ELSE [err |-> NoError, up |-> updown[1].val, down |-> updown[2].val]

NoStats == [kind |-> "None"]

\* parse(html): the four pairs in turn, the first failure raised
Parse(doc) ==
  LET rate == FetchPair(doc, "Line Rate", "Mbps")
      power == FetchPair(doc, "Output Power", "dBm")
      atten == FetchPair(doc, "Line Attenuation", "dB")
      noise == FetchPair(doc, "Noise Margin", "dB")
  IN IF rate.err # NoError THEN [err |-> rate.err, res |-> NoStats]
     ELSE IF power.err # NoError THEN [err |-> power.err, res |-> NoStats]
     ELSE IF atten.err # NoError THEN [err |-> atten.err, res |-> NoStats]
     ELSE IF noise.err # NoError THEN [err |-> noise.err, res |-> NoStats]
     ELSE [err |-> NoError,
           res |-> [kind |-> "dict",
                    up_rate |-> rate.up, down_rate |-> rate.down,
                    up_power |-> power.up, down_power |-> power.down,
                    up_attenuation |-> atten.up, down_attenuation |-> atten.down,
                    up_noisemargin |-> noise.up, down_noisemargin |-> noise.down]]

----------------------------------------------------------------------------
(* The environment: configuration files, modem responses, saved pages *)

NoConfig == [address |-> "", username |-> "", password |-> ""]

Configs ==
  [address : {"10.1.1.1"}, username : {"admin"}, password : {"pw1", "pw2"}]

CsrfTexts == {Rep("a", 64), Rep("b", 64), Rep("a", 63), Rep("a", 65), Text_none}

Statuses == {200, 403}

\* no response at all: requests raises ConnectionError
NetFail(body) == [net |-> FALSE, status |-> 0, body |-> body, setcookie |-> FALSE]

Resp(status, body, setcookie) ==
  [net |-> TRUE, status |-> status, body |-> body, setcookie |-> setcookie]

CsrfResponses ==
  {Resp(st, b, c) : st \in Statuses, b \in CsrfTexts, c \in BOOLEAN}
  \cup {NetFail(Text_none)}

SaltTexts == {<<"a", "b">>, <<"a">>}
BTexts == {<<"c", "d">>, <<"0", "0">>, <<"z", "z">>}

\* s empty, B empty, B = N
OddChallenges ==
  {<<Text_none, <<"c", "d">>>>, <<<<"a", "b">>, Text_none>>, <<<<"a", "b">>, <<"1", "7">>>>}

ChallengeBodies ==
  {NotJson, JObject(<<>>), JObject([x \in {"s"} |-> <<"a", "b">>])}
  \cup {JObject([x \in {"s", "B"} |-> IF x = "s" THEN s ELSE B]) :
          s \in SaltTexts, B \in BTexts}
  \cup {JObject([x \in {"s", "B"} |-> IF x = "s" THEN c[1] ELSE c[2]]) :
          c \in OddChallenges}

Auth1Responses ==
  {Resp(st, b, c) : st \in Statuses, b \in ChallengeBodies, c \in BOOLEAN}
  \cup {NetFail(NotJson)}

ErrorText == <<"n", "o">>

ProofBodies ==
  {NotJson,
   JObject(<<>>),
   JObject([x \in {"M2"} |-> <<"f", "f">>]),
   JObject([x \in {"error"} |-> ErrorText]),
   JObject([x \in {"error", "M2"} |-> IF x = "error" THEN ErrorText ELSE <<"f", "f">>])}

Auth2Responses ==
  {Resp(st, b, c) : st \in Statuses, b \in ProofBodies, c \in BOOLEAN}
  \cup {NetFail(NotJson)}

PairRow(title, unit, up, down) ==
  Row(title, <<Node(TRUE, up, unit), Node(TRUE, down, unit)>>)

PageGood ==
  <<PairRow("Line Rate", "Mbps", 123, 987),
    PairRow("Output Power", "dBm", 55, 130),
    PairRow("Line Attenuation", "dB", 82, 141),
    PairRow("Noise Margin", "dB", 96, 71)>>

PageFast ==
  <<PairRow("Line Rate", "Mbps", 987, 123),
    PairRow("Output Power", "dBm", 130, 55),
    PairRow("Line Attenuation", "dB", 141, 82),
    PairRow("Noise Margin", "dB", 71, 96)>>

\* a page without the statistics, such as a login or an error page
PageOther == <<Row("Sign in", <<>>)>>

\* the line rate row holds one value only
PageOne ==
  <<Row("Line Rate", <<Node(TRUE, 123, "Mbps")>>)>> \o Tail(PageGood)

Pages == {PageGood, PageFast, PageOther, PageOne}

PageResponses ==
  {Resp(st, b, c) : st \in {200, 404}, b \in Pages, c \in BOOLEAN}
  \cup {NetFail(<<>>)}

\* The strings a row of a saved page may hold below its title, in document
\* order: two values either way round or equal, one, none, three, a label
\* and a value of another unit among them, a word where a number should be
NodeSeqs(unit) ==
  LET lo == Node(TRUE, 71, unit)
      hi == Node(TRUE, 123, unit)
      word == Node(FALSE, 0, unit)
      label == Node(FALSE, 0, "")
      other == Node(TRUE, 55, IF unit = "Mbps" THEN "dB" ELSE "Mbps")
  IN {<<lo, hi>>, <<hi, lo>>, <<hi, hi>>, <<lo>>, <<>>, <<lo, hi, lo>>,
      <<label, lo, other, hi>>, <<word, hi>>}
     \cup (IF unit = "dB" THEN {<<lo, hi, Node(TRUE, 55, "dBm")>>} ELSE {})

\* a row of the page, or no such row
RowOpt(title, unit) == {<<>>} \cup {<<Row(title, ns)>> : ns \in NodeSeqs(unit)}

\* the files --parse may be given
Docs ==
  {a \o b \o c \o d : a \in RowOpt("Line Rate", "Mbps"),
                      b \in RowOpt("Output Power", "dBm"),
                      c \in RowOpt("Line Attenuation", "dB"),
                      d \in RowOpt("Noise Margin", "dB")}
  \cup {PageGood \o PageFast, PageOther \o PageFast}

----------------------------------------------------------------------------
(* Requests *)

CsrfPath == "/login.lp?action=getcsrf"
AuthPath == "/authenticate"
PagePath == "/modals/broadband-bridge-modal.lp"

NoData == <<>>

\* faulty variant: the password is sent along
Auth1DataLeaky(I, A, token) ==
  [x \in {"I", "A", "CSRFtoken", "password"} |->
     CASE x = "I" -> [kind |-> "str", of |-> I]
       [] x = "A" -> A
       [] x = "password" -> [kind |-> "str", of |-> config.password]
       [] OTHER -> [kind |-> "text", of |-> token]]

\* req_data of the first POST
Auth1Data(I, A, token) ==
  [x \in {"I", "A", "CSRFtoken"} |->
     CASE x = "I" -> [kind |-> "str", of |-> I]
       [] x = "A" -> A
       [] OTHER -> [kind |-> "text", of |-> token]]

\* faulty variant: the proof goes out without the token
Auth2DataBlank(M, token) ==
  [x \in {"M", "CSRFtoken"} |->
     IF x = "M" THEN M ELSE [kind |-> "text", of |-> Text_none]]

\* req_data of the second POST
Auth2Data(M, token) ==
  [x \in {"M", "CSRFtoken"} |->
     IF x = "M" THEN M ELSE [kind |-> "text", of |-> token]]

\* the cookies of all jars
AllCookies(j) == UNION {j[i] : i \in 1..Len(j)}

\* faulty variant: the request goes out bare, as from a transport of its own
ExchangeBare(j, sid, method, path, data, r) ==
  /\ wire' = Append(wire,
       [sid |-> sid, method |-> method, base |-> top_url, path |-> path,
        data |-> data, cookies |-> {}, resp |-> r])
  /\ jar' = IF r.net /\ r.setcookie
            THEN [j EXCEPT ![sid] = @ \cup {Cardinality(AllCookies(j)) + 1}]
            ELSE j

\* One exchange on session sid whose cookie jar is j[sid]: the request carries
\* the jar's cookies, the response may add one, unlike all cookies so far
Exchange(j, sid, method, path, data, r) ==
  /\ wire' = Append(wire,
       [sid |-> sid, method |-> method, base |-> top_url, path |-> path,
        data |-> data, cookies |-> j[sid], resp |-> r])
  /\ jar' = IF r.net /\ r.setcookie
            THEN [j EXCEPT ![sid] = @ \cup {Cardinality(AllCookies(j)) + 1}]
            ELSE j

----------------------------------------------------------------------------
(* The checks of connect and fetch *)

\* faulty variant: longer tokens pass
CsrfOkAtLeast(text) == Len(text) >= CsrfLen

\* line 53: len(csrf) != 64 raises
CsrfOk(text) == Len(text) = CsrfLen

\* faulty variant: the status is not looked at
StatusAny(status) == TRUE

\* lines 76, 96: status_code != 200 raises
StatusOk(status) == status = HttpOk

\* faulty variant: every call connects
NeedConnectAlways(session) == TRUE

\* line 108: `if not self.session`
NeedConnect(session) == session = 0

ConnectionError == Exc("ConnectionError", "", 0, Text_none)

\* lines 52-55: the exception connect raises on the response to the CSRF
\* request, NoError when it goes on
CsrfVerdict(r) ==
  IF ~r.net THEN ConnectionError
  ELSE IF ~CsrfOk(r.body) THEN Exc("Exception", "Bad csrf response", 0, Text_none)
  ELSE NoError

\* faulty variant: the body is decoded before the status is looked at
ChallengeBodyFirst(u, r) ==
  LET j == r.body
      fail(e) == [err |-> e, M |-> NoneVal]
  IN IF ~r.net THEN fail(ConnectionError)
     ELSE IF j.kind = "notjson" THEN fail(Exc("JSONDecodeError", "", 0, Text_none))
     ELSE IF ~In("s", j) THEN fail(Exc("KeyError", "s", 0, Text_none))
     ELSE IF ~In("B", j) THEN fail(Exc("KeyError", "B", 0, Text_none))
     ELSE IF ~StatusOk(r.status)
       THEN fail(Exc("Exception", "Error authenticating", r.status, Text_none))
     ELSE IF ~IsHex(j.fields["s"]) \/ ~IsHex(j.fields["B"])
       THEN fail(Exc("binascii.Error", "", 0, Text_none))
     ELSE LET M == ProcessChallenge(u, Unhexlify(j.fields["s"]), Unhexlify(j.fields["B"]))
          IN IF M = NoneVal THEN fail(Exc("TypeError", "", 0, Text_none))
             ELSE [err |-> NoError, M |-> Hexlify(M)]

\* lines 76-88: what connect makes of the response to the first POST: the
\* exception raised, or the proof M in hex
Challenge(u, r) ==
  LET j == r.body
      fail(e) == [err |-> e, M |-> NoneVal]
  IN IF ~r.net THEN fail(ConnectionError)
     ELSE IF ~StatusOk(r.status)
       THEN fail(Exc("Exception", "Error authenticating", r.status, Text_none))
     ELSE IF j.kind = "notjson" THEN fail(Exc("JSONDecodeError", "", 0, Text_none))
     ELSE IF ~In("s", j) THEN fail(Exc("KeyError", "s", 0, Text_none))
     ELSE IF ~In("B", j) THEN fail(Exc("KeyError", "B", 0, Text_none))
     ELSE IF ~IsHex(j.fields["s"]) \/ ~IsHex(j.fields["B"])
       THEN fail(Exc("binascii.Error", "", 0, Text_none))
     ELSE LET M == ProcessChallenge(u, Unhexlify(j.fields["s"]), Unhexlify(j.fields["B"]))
          IN IF M = NoneVal THEN fail(Exc("TypeError", "", 0, Text_none))
             ELSE [err |-> NoError, M |-> Hexlify(M)]

\* faulty variant: the rejection is raised with the message of the status
\* failure
VerdictSameMessage(r) ==
  LET j == r.body
  IN IF ~r.net THEN ConnectionError
     ELSE IF ~StatusOk(r.status)
       THEN Exc("Exception", "Didn't connect, error", r.status, Text_none)
     ELSE IF j.kind = "notjson" THEN Exc("JSONDecodeError", "", 0, Text_none)
     ELSE IF In("error", j)
       THEN Exc("Exception", "Didn't connect, error", 0, j.fields["error"])
     ELSE NoError

\* faulty variant: the `error` field is looked at before the status
VerdictErrorFirst(r) ==
  LET j == r.body
  IN IF ~r.net THEN ConnectionError
     ELSE IF In("error", j)
       THEN Exc("Exception", "Authentication error. Wrong password?", 0,
                j.fields["error"])
     ELSE IF ~StatusOk(r.status)
       THEN Exc("Exception", "Didn't connect, error", r.status, Text_none)
     ELSE IF j.kind = "notjson" THEN Exc("JSONDecodeError", "", 0, Text_none)
     ELSE NoError

\* faulty variant: a server proof M2 is demanded of the reply
VerdictWantsM2(r) ==
  LET j == r.body
  IN IF ~r.net THEN ConnectionError
     ELSE IF ~StatusOk(r.status)
       THEN Exc("Exception", "Didn't connect, error", r.status, Text_none)
     ELSE IF j.kind = "notjson" THEN Exc("JSONDecodeError", "", 0, Text_none)
     ELSE IF In("error", j)
       THEN Exc("Exception", "Authentication error. Wrong password?", 0,
                j.fields["error"])
     ELSE IF ~In("M2", j) THEN Exc("KeyError", "M2", 0, Text_none)
     ELSE NoError

\* lines 96-103: the exception connect raises on the response to the second
\* POST, NoError when it returns the session
Verdict(r) ==
  LET j == r.body
  IN IF ~r.net THEN ConnectionError
     ELSE IF ~StatusOk(r.status)
       THEN Exc("Exception", "Didn't connect, error", r.status, Text_none)
     ELSE IF j.kind = "notjson" THEN Exc("JSONDecodeError", "", 0, Text_none)
     ELSE IF In("error", j)
       THEN Exc("Exception", "Authentication error. Wrong password?", 0,
                j.fields["error"])
     ELSE NoError

\* faulty variant: the session is stored before connect has checked the reply
StoredAlways(old, new, returned) == new

\* line 109, `self.session = self.connect()`: the assignment happens when
\* connect returns, not when it raises
Stored(old, new, returned) == IF returned THEN new ELSE old

----------------------------------------------------------------------------
(* The program *)

Init ==
  /\ pc = "start"
  /\ caller = "none"
  /\ args = [parse |-> FALSE, json |-> FALSE]
  /\ config = NoConfig
  /\ top_url = <<>>
  /\ fsession = 0
  /\ jar = <<>>
  /\ cur = 0
  /\ csrf = Text_none
  /\ srp_user = NoneVal
  /\ proof = NoneVal
  /\ wire = <<>>
  /\ calls = 0
  /\ entropy = 0
  /\ err = NoError
  /\ page = <<>>
  /\ stats = NoStats
  /\ stdout = <<>>
  /\ exitStatus = -1

\* faulty variant: main reports the exception and ends normally
RaiseHandled(e) ==
  /\ err' = e
  /\ pc' = IF caller = "main" THEN "exit" ELSE "idle"
  /\ exitStatus' = IF caller = "main" THEN 0 ELSE exitStatus
  /\ cur' = 0
  /\ csrf' = Text_none
  /\ srp_user' = NoneVal
  /\ proof' = NoneVal

\* An exception leaves the operation in progress: main has no handler, so
\* the process ends with status 1; a caller that keeps the Fetcher gets the
\* exception.  connect's locals are gone either way.
Raise(e) ==
  /\ err' = e
  /\ pc' = IF caller = "main" THEN "exit" ELSE "idle"
  /\ exitStatus' = IF caller = "main" THEN 1 ELSE exitStatus
  /\ cur' = 0
  /\ csrf' = Text_none
  /\ srp_user' = NoneVal
  /\ proof' = NoneVal

\* faulty variant: the saved page is not used
OfflineNever(a) == FALSE

\* main, line 156: `if args.parse`
Offline(a) == a.parse

\* Fetcher.__init__, line 41
TopUrl(cfg) == <<"http://", cfg.address>>

\* main, lines 138-160: the command line and the configuration file are
\* read; with --parse the saved page is read, else a Fetcher is made and
\* its fetch called
MainStartWith(files) ==
  /\ pc = "start"
  /\ \E a \in [parse : BOOLEAN, json : BOOLEAN], cfg \in Configs \cup {NoConfig},
        file \in files :
       /\ caller' = "main"
       /\ args' = a
       /\ IF cfg = NoConfig
          THEN /\ err' = Exc("FileNotFoundError", "", 0, Text_none)
               /\ pc' = "exit"
               /\ exitStatus' = 1
               /\ UNCHANGED <<config, top_url, page>>
          ELSE /\ config' = cfg
               /\ page' = IF a.parse THEN file ELSE page
               /\ top_url' = IF Offline(a) THEN top_url ELSE TopUrl(cfg)
               /\ pc' = IF Offline(a) THEN "parse" ELSE "fetch"
               /\ UNCHANGED <<err, exitStatus>>
  /\ UNCHANGED <<fsession, jar, cur, csrf, srp_user, proof, wire, calls, entropy,
                 stats, stdout>>

\* Fetcher.__init__, lines 39-42, in a program that keeps the Fetcher
LibStart ==
  /\ pc = "start"
  /\ \E cfg \in Configs : config' = cfg /\ top_url' = TopUrl(cfg)
  /\ caller' = "lib"
  /\ fsession' = 0
  /\ pc' = "idle"
  /\ UNCHANGED <<args, jar, cur, csrf, srp_user, proof, wire, calls, entropy, err,
                 page, stats, stdout, exitStatus>>

\* such a program calls fetch again
LibFetch ==
  /\ pc = "idle"
  /\ calls < MaxFetchCalls
  /\ pc' = "fetch"
  /\ UNCHANGED <<caller, args, config, top_url, fsession, jar, cur, csrf, srp_user, proof,
                 wire, calls, entropy, err, page, stats, stdout, exitStatus>>

\* Fetcher.fetch, lines 107-109
FetchEnter ==
  /\ pc = "fetch"
  /\ calls' = calls + 1
  /\ err' = NoError
  /\ wire' = <<>>
  /\ page' = <<>>
  /\ pc' = IF NeedConnect(fsession) THEN "connect" ELSE "get_page"
  /\ UNCHANGED <<caller, args, config, top_url, fsession, jar, cur, csrf, srp_user, proof,
                 entropy, stats, stdout, exitStatus>>

\* Fetcher.connect, lines 48-56
ConnectCsrf ==
  /\ pc = "connect"
  /\ \E r \in CsrfResponses :
       LET sid == Len(jar) + 1
       IN /\ Exchange(Append(jar, {}), sid, "GET", CsrfPath, NoData, r)
          /\ IF CsrfVerdict(r) # NoError THEN Raise(CsrfVerdict(r))
             ELSE /\ cur' = sid
                  /\ csrf' = r.body
                  /\ pc' = "auth1"
                  /\ UNCHANGED <<err, exitStatus, srp_user, proof>>
  /\ UNCHANGED <<caller, args, config, top_url, fsession, calls, entropy, page, stats, stdout>>

\* Fetcher.connect, lines 58-88
ConnectAuth1 ==
  /\ pc = "auth1"
  /\ \E r \in Auth1Responses, check \in SafetyChecks :
       LET u == SetDeviceK(SrpUser(config.username, config.password, entropy + 1, check))
           IA == StartAuthentication(u)
           out == Challenge(u, r)
       IN /\ entropy' = entropy + 1
          /\ Exchange(jar, cur, "POST", AuthPath,
                      Auth1Data(IA[1], Hexlify(IA[2]), csrf), r)
          /\ IF out.err # NoError THEN Raise(out.err)
             ELSE /\ srp_user' = u
                  /\ proof' = out.M
                  /\ pc' = "auth2"
                  /\ UNCHANGED <<cur, csrf, err, exitStatus>>
  /\ UNCHANGED <<caller, args, config, top_url, fsession, calls, page, stats, stdout>>

\* Fetcher.connect, lines 89-105, and the assignment of line 109
ConnectAuth2 ==
  /\ pc = "auth2"
  /\ \E r \in Auth2Responses :
       /\ Exchange(jar, cur, "POST", AuthPath, Auth2Data(proof, csrf), r)
       /\ fsession' = Stored(fsession, cur, Verdict(r) = NoError)
       /\ IF Verdict(r) # NoError
          THEN Raise(Verdict(r))
          ELSE /\ pc' = "get_page"
               /\ cur' = 0
               /\ csrf' = Text_none
               /\ srp_user' = NoneVal
               /\ proof' = NoneVal
               /\ UNCHANGED <<err, exitStatus>>
  /\ UNCHANGED <<caller, args, config, top_url, calls, entropy, page, stats, stdout>>

\* Fetcher.fetch, lines 111-113
FetchGetPage ==
  /\ pc = "get_page"
  /\ \E r \in PageResponses :
       /\ Exchange(jar, fsession, "GET", PagePath, NoData, r)
       /\ IF ~r.net THEN Raise(ConnectionError) /\ UNCHANGED page
          ELSE /\ page' = r.body
               /\ pc' = IF caller = "main" THEN "parse" ELSE "idle"
               /\ UNCHANGED <<err, exitStatus, cur, csrf, srp_user, proof>>
  /\ UNCHANGED <<caller, args, config, top_url, fsession, calls, entropy, stats, stdout>>

\* main, line 163
MainParse ==
  /\ pc = "parse"
  /\ LET out == Parse(page)
     IN IF out.err # NoError THEN Raise(out.err) /\ UNCHANGED stats
        ELSE /\ stats' = out.res
             /\ pc' = "print"
             /\ UNCHANGED <<err, exitStatus, cur, csrf, srp_user, proof>>
  /\ UNCHANGED <<caller, args, config, top_url, fsession, jar, wire, calls, entropy, page,
                 stdout>>

\* main, lines 165-168, and the end of the script
MainPrint ==
  /\ pc = "print"
  /\ stdout' = <<[format |-> IF args.json THEN "json" ELSE "plain", stats |-> stats]>>
  /\ pc' = "exit"
  /\ exitStatus' = 0
  /\ UNCHANGED <<caller, args, config, top_url, fsession, jar, cur, csrf, srp_user, proof,
                 wire, calls, entropy, err, page, stats>>

MainStart == MainStartWith(Pages)

Next ==
  \/ MainStart
  \/ LibStart
  \/ LibFetch
  \/ FetchEnter
  \/ ConnectCsrf
  \/ ConnectAuth1
  \/ ConnectAuth2
  \/ FetchGetPage
  \/ MainParse
  \/ MainPrint

Spec == Init /\ [][Next]_vars

\* The script run with --parse on a saved page, the pages drawn from Docs
ParseStart == MainStartWith(Docs) /\ args'.parse

NextParse ==
  \/ ParseStart
  \/ MainParse
  \/ MainPrint

SpecParse == Init /\ [][NextParse]_vars

----------------------------------------------------------------------------
(* Vocabulary of the properties *)

\* the fetch call in progress (or just ended) ran connect
HandshakeCall == wire # <<>> /\ wire[1].path = CsrfPath

Paths == [i \in 1..Len(wire) |-> wire[i].path]
Methods == [i \in 1..Len(wire) |-> wire[i].method]

IsPrefix(s, full) == Len(s) <= Len(full) /\ \A i \in 1..Len(s) : s[i] = full[i]

\* the postcondition that step i of the handshake puts on its response
Satisfied(i) ==
  LET r == wire[i].resp
  IN /\ r.net
     /\ CASE i = 1 -> Len(r.body) = 64
          [] i = 2 -> /\ r.status = 200
                      /\ r.body.kind = "object"
                      /\ {"s", "B"} \subseteq DOMAIN r.body.fields
                      /\ IsHex(r.body.fields["s"])
                      /\ IsHex(r.body.fields["B"])
                      /\ BytesToLong(Unhexlify(r.body.fields["B"])) # 0
          [] i = 3 -> /\ r.status = 200
                      /\ r.body.kind = "object"
                      /\ "error" \notin DOMAIN r.body.fields
          [] OTHER -> TRUE

\* some step of the handshake of this call failed
HandshakeFailed ==
  HandshakeCall /\ \E i \in 1..Len(wire) : i <= 3 /\ ~Satisfied(i)

----------------------------------------------------------------------------
(* C1: when the body of the CSRF response is not exactly 64 characters     *)
(* long, connect fails with the bad-csrf error and the call sends nothing  *)
(* more, so no POST to /authenticate; when it is 64 long, connect goes on  *)
(* to the first POST.                                                      *)
C1_CsrfLengthGate ==
  (HandshakeCall /\ wire[1].resp.net) =>
    IF Len(wire[1].resp.body) # 64
    THEN /\ Len(wire) = 1
         /\ \A i \in 1..Len(wire) : wire[i].method # "POST"
         /\ err = Exc("Exception", "Bad csrf response", 0, Text_none)
         /\ pc \in {"idle", "exit", "fetch"}
    ELSE \/ pc = "auth1" /\ Len(wire) = 1
         \/ Len(wire) >= 2 /\ wire[2].method = "POST" /\ wire[2].path = AuthPath

C1_Witness ==
  /\ HandshakeCall
  /\ wire[1].resp.net
  /\ Len(wire[1].resp.body) = 65
  /\ err.msg = "Bad csrf response"

(* C2: the requests of one fetch call that found no session are a prefix   *)
(* of GET getcsrf, POST /authenticate {I, A, CSRFtoken}, POST              *)
(* /authenticate {M, CSRFtoken}, GET of the page, in this order and each   *)
(* at most once, and each is sent only when the response to the one before *)
(* met its postcondition.  The only other shape of a call is the single    *)
(* GET of the page on a session stored by an earlier call.                 *)
C2_RequestOrder ==
  /\ pc = "connect" => wire = <<>>
  /\ HandshakeCall =>
       /\ IsPrefix(Paths, <<CsrfPath, AuthPath, AuthPath, PagePath>>)
       /\ IsPrefix(Methods, <<"GET", "POST", "POST", "GET">>)
       /\ Len(wire) >= 2 => DOMAIN wire[2].data = {"I", "A", "CSRFtoken"}
       /\ Len(wire) >= 3 => DOMAIN wire[3].data = {"M", "CSRFtoken"}
       /\ \A i \in 2..Len(wire) : Satisfied(i - 1)
       /\ pc \in {"auth1", "auth2", "get_page"} => Satisfied(Len(wire))
  /\ (wire # <<>> /\ ~HandshakeCall) =>
       /\ Paths = <<PagePath>>
       /\ fsession # 0
       /\ wire[1].sid = fsession

C2_Witness ==
  /\ HandshakeCall
  /\ Len(wire) = 4
  /\ wire[4].path = PagePath

(* C3: connect returns a session exactly when the response to the proof    *)
(* POST has status 200 and a JSON body without an `error` field; nothing   *)
(* else of that response is looked at (a server proof M2 may be there or   *)
(* not), and in every other case no session is returned.                   *)
C3_SessionIffAccepted ==
  HandshakeCall =>
    /\ fsession # 0 <=>
         /\ Len(wire) >= 3
         /\ wire[3].resp.net
         /\ wire[3].resp.status = 200
         /\ wire[3].resp.body.kind = "object"
         /\ "error" \notin DOMAIN wire[3].resp.body.fields
    /\ fsession # 0 => fsession = wire[1].sid

C3_Witness ==
  /\ HandshakeCall
  /\ Len(wire) >= 3
  /\ wire[3].resp.body = JObject(<<>>)
  /\ fsession = wire[1].sid

(* C4, as stated: whenever the response to the proof POST carries an       *)
(* `error` field, connect fails with the credential rejection whose detail *)
(* is the server's error text.                                             *)
C4_ErrorFieldAlwaysWins ==
  (HandshakeCall /\ Len(wire) >= 3 /\ wire[3].resp.net
     /\ In("error", wire[3].resp.body)) =>
    err = Exc("Exception", "Authentication error. Wrong password?", 0,
              wire[3].resp.body.fields["error"])

(* C4, amended: the status is looked at first.  A proof response whose     *)
(* status is not 200 fails connect with the error carrying that status,    *)
(* whatever its body; a proof response of status 200 that carries an       *)
(* `error` field fails connect with the credential rejection whose detail  *)
(* is the server's error text, whatever else the body holds.               *)
C4_StatusThenErrorField ==
  (HandshakeCall /\ Len(wire) >= 3 /\ wire[3].resp.net) =>
    LET r == wire[3].resp
    IN /\ r.status # 200 =>
            err = Exc("Exception", "Didn't connect, error", r.status, Text_none)
       /\ (r.status = 200 /\ In("error", r.body)) =>
            err = Exc("Exception", "Authentication error. Wrong password?", 0,
                      r.body.fields["error"])

C4_Witness ==
  /\ HandshakeCall
  /\ Len(wire) >= 3
  /\ wire[3].resp.status = 200
  /\ wire[3].resp.body.kind = "object"
  /\ DOMAIN wire[3].resp.body.fields = {"error", "M2"}
  /\ err.text = ErrorText

(* C5: when the handshake of a run of the script fails at any step, the    *)
(* page is never requested, nothing is printed, and the process ends with  *)
(* a non-zero exit status.                                                 *)
C5_FailedHandshakeEndsRun ==
  (caller = "main" /\ HandshakeFailed) =>
    /\ \A i \in 1..Len(wire) : wire[i].path # PagePath
    /\ page = <<>>
    /\ stats = NoStats
    /\ stdout = <<>>
    /\ pc = "exit"
    /\ exitStatus \notin {-1, 0}

C5_Witness ==
  /\ caller = "main"
  /\ HandshakeCall
  /\ Len(wire) = 3
  /\ wire[3].resp.status = 200
  /\ In("error", wire[3].resp.body)
  /\ pc = "exit"

(* C6: a connect that fails leaves Fetcher.session unset and keeps nothing *)
(* of the handshake; the next fetch on the same Fetcher starts over with a *)
(* new requests.Session whose cookie jar is empty and shares no cookie     *)
(* with the sessions of the failed attempts, sends in its POSTs the token  *)
(* that its own CSRF request returned, and uses the secret exponent drawn  *)
(* last, which no earlier attempt had.                                     *)
C6_FailedAttemptLeavesNothing ==
  /\ HandshakeFailed =>
       /\ fsession = 0
       /\ cur = 0 /\ csrf = Text_none /\ srp_user = NoneVal /\ proof = NoneVal
  /\ (HandshakeCall /\ calls >= 2) =>
       LET sid == wire[1].sid
       IN /\ sid = Len(jar)
          /\ wire[1].cookies = {}
          /\ \A i \in 1..Len(wire) :
               /\ wire[i].sid = sid
               /\ wire[i].cookies \subseteq jar[sid]
               /\ \A old \in 1..(sid - 1) : wire[i].cookies \cap jar[old] = {}
          /\ \A i \in 2..Len(wire) :
               i <= 3 => wire[i].data["CSRFtoken"].of = wire[1].resp.body
          /\ Len(wire) >= 2 => wire[2].data["A"] = Hexlify(PubA(entropy))

C6_Witness ==
  /\ calls >= 2
  /\ HandshakeCall
  /\ Len(wire) >= 3
  /\ jar[1] # {}
  /\ wire[3].cookies # {}
  /\ fsession = 2

----------------------------------------------------------------------------
(* Kinds of failure of the handshake *)

\* what went wrong when response r failed step i: no or a non-200 answer is
\* a transport failure, an `error` field a rejection of the credentials,
\* anything else a violation of the protocol
FailKind(i, r) ==
  IF ~r.net THEN "transport"
  ELSE IF i = 1 THEN "protocol"
  ELSE IF r.status # 200 THEN "transport"
  ELSE IF i = 3 /\ In("error", r.body) THEN "credential"
  ELSE "protocol"

StepInputs(i) ==
  CASE i = 1 -> CsrfResponses
    [] i = 2 -> Auth1Responses
    [] OTHER -> Auth2Responses

\* the exception connect raises when step i gets response r
StepError(i, r) ==
  CASE i = 1 -> CsrfVerdict(r)
    [] i = 2 -> Challenge(SrpUser("", "", 0, "B mod N = 0"), r).err
    [] OTHER -> Verdict(r)

\* the kinds of failure after which connect raises an exception of this type
KindsOfType(type) ==
  UNION {{FailKind(i, r) : r \in {x \in StepInputs(i) : StepError(i, x).type = type}} :
           i \in 1..3}

\* the kinds of failure after which connect raises this type with this message
KindsOfTypeMsg(type, msg) ==
  UNION {{FailKind(i, r) :
            r \in {x \in StepInputs(i) :
                     StepError(i, x).type = type /\ StepError(i, x).msg = msg}} :
           i \in 1..3}

\* the kind of the failure that ended the handshake of this call
ActualKind == FailKind(Len(wire), wire[Len(wire)].resp)

(* C7, as stated: the type of the error of a failed handshake tells        *)
(* whether the failure was one of transport, of protocol or of the         *)
(* credentials: no type is raised for failures of two kinds.               *)
C7_TypeTellsKind ==
  HandshakeFailed => KindsOfType(err.type) = {ActualKind}

(* C7, amended: the failures connect raises itself (bad CSRF token,        *)
(* non-200 status, rejected proof) all have the one type Exception, which  *)
(* is raised for all three kinds; it is the type together with the         *)
(* message text that tells the kind.  Undecodable replies surface as the   *)
(* decoders' own exceptions and unanswered requests as ConnectionError.    *)
C7_MessageTellsKind ==
  HandshakeFailed =>
    /\ KindsOfTypeMsg(err.type, err.msg) = {ActualKind}
    /\ KindsOfType("Exception") = {"transport", "protocol", "credential"}
    /\ LET r == wire[Len(wire)].resp
       IN (r.net /\ (Len(wire) = 1 \/ r.status # 200 \/ In("error", r.body)))
            => err.type = "Exception"

C7_Witness ==
  /\ HandshakeFailed
  /\ ActualKind = "credential"
  /\ err.type = "Exception"
  /\ KindsOfType(err.type) # {ActualKind}

(* C8: fetch fails with an http-status error when the GET of the page      *)
(* returns a status other than 200, and returns the body when it is 200.   *)
C8_PageStatusChecked ==
  (wire # <<>> /\ wire[Len(wire)].path = PagePath /\ wire[Len(wire)].resp.net) =>
    LET r == wire[Len(wire)].resp
    IN IF r.status # 200
       THEN err.type # "none" /\ err.code = r.status /\ page = <<>>
       ELSE err = NoError /\ page = r.body

(* C9: the password is in no HTTP request.  The GETs carry no data, the    *)
(* first POST carries exactly I, A and CSRFtoken, the second exactly M and *)
(* CSRFtoken; I is the user name, A and M are hex of values computed by    *)
(* the SRP library, the token is the text of the CSRF response, and no     *)
(* field is the password as text.                                          *)
C9_PasswordNeverSent ==
  \A i \in 1..Len(wire) :
    LET e == wire[i]
    IN /\ e.method = "GET" => e.data = NoData
       /\ e.method = "POST" =>
            /\ HandshakeCall /\ i \in {2, 3}
            /\ i = 2 => /\ DOMAIN e.data = {"I", "A", "CSRFtoken"}
                        /\ e.data["I"] = [kind |-> "str", of |-> config.username]
            /\ i = 3 => DOMAIN e.data = {"M", "CSRFtoken"}
            /\ e.data["CSRFtoken"] = [kind |-> "text", of |-> wire[1].resp.body]
            /\ \A k \in DOMAIN e.data \ {"I", "CSRFtoken"} : e.data[k].kind = "hex"
       /\ \A k \in DOMAIN e.data :
            e.data[k].kind = "str" => e.data[k].of # config.password
       /\ e.base = <<"http://", config.address>>

C9_Witness ==
  /\ HandshakeCall
  /\ Len(wire) >= 3
  /\ wire[3].data["M"].kind = "hex"
  /\ wire[3].data["M"].of.H.p = config.password

(* C10: with --parse the saved page stands for the network fetch: no       *)
(* Fetcher is made, no session is created, no HTTP request is sent, and    *)
(* the statistics printed are those parse extracts from the saved page.    *)
C10_OfflineParse ==
  (caller = "main" /\ args.parse) =>
    /\ wire = <<>>
    /\ jar = <<>>
    /\ top_url = <<>>
    /\ fsession = 0
    /\ calls = 0
    /\ entropy = 0
    /\ pc \in {"parse", "print", "exit"}
    /\ pc = "print" => stats = Parse(page).res /\ Parse(page).err = NoError
    /\ stdout # <<>> => stdout[1].stats = Parse(page).res

C10_Witness ==
  /\ caller = "main"
  /\ args.parse
  /\ pc = "exit"
  /\ stdout # <<>>
  /\ stdout[1].stats.up_rate = 987

----------------------------------------------------------------------------
(* Vocabulary of the properties about parse *)

\* the four sections parse reads: title, unit, key of the result
Sections ==
  {<<"Line Rate", "Mbps", "rate">>, <<"Output Power", "dBm", "power">>,
   <<"Line Attenuation", "dB", "attenuation">>, <<"Noise Margin", "dB", "noisemargin">>}

HasRow(doc, title) == \E i \in DOMAIN doc : doc[i].title = title

\* the first row of the page with this title
FirstRow(doc, title) ==
  doc[CHOOSE i \in DOMAIN doc :
        doc[i].title = title /\ \A j \in 1..(i - 1) : doc[j].title # title]

\* the strings of the section that carry the unit, in document order
Carriers(doc, title, unit) ==
  LET nodes == FirstRow(doc, title).nodes
      P == {i \in DOMAIN nodes : UnitOccurs(unit, nodes[i])}
  IN [k \in 1..Cardinality(P) |->
        nodes[CHOOSE i \in P : Cardinality({j \in P : j < i}) = k - 1]]

IsValue(unit, n) == n.isnum /\ n.unit = unit

\* the section is there and holds exactly two values carrying the unit
TwoValues(doc, sec) ==
  /\ HasRow(doc, sec[1])
  /\ Len(Carriers(doc, sec[1], sec[2])) = 2
  /\ \A k \in 1..2 : IsValue(sec[2], Carriers(doc, sec[1], sec[2])[k])

UpOf(st, key) ==
  CASE key = "rate" -> st.up_rate
    [] key = "power" -> st.up_power
    [] key = "attenuation" -> st.up_attenuation
    [] key = "noisemargin" -> st.up_noisemargin

DownOf(st, key) ==
  CASE key = "rate" -> st.down_rate
    [] key = "power" -> st.down_power
    [] key = "attenuation" -> st.down_attenuation
    [] key = "noisemargin" -> st.down_noisemargin

\* main is past its call of parse
Parsed == caller = "main" /\ pc \in {"print", "exit"} /\ page # <<>>

----------------------------------------------------------------------------
(* C11: when each labelled section of the page holds two values carrying its
   unit, parse gives the first in document order as the upstream value and
   the second as the downstream value, whichever of the two is larger. *)
C11_DocumentOrder ==
  (Parsed /\ \A sec \in Sections : TwoValues(page, sec)) =>
     /\ stats # NoStats
     /\ \A sec \in Sections :
          /\ UpOf(stats, sec[3]) = Carriers(page, sec[1], sec[2])[1].val
          /\ DownOf(stats, sec[3]) = Carriers(page, sec[1], sec[2])[2].val

\* a page parsed with the upstream rate above the downstream rate and the
\* upstream noise margin below the downstream one
C11_Witness ==
  /\ Parsed /\ stats # NoStats
  /\ \A sec \in Sections : TwoValues(page, sec)
  /\ stats.up_rate > stats.down_rate
  /\ stats.up_noisemargin < stats.down_noisemargin

----------------------------------------------------------------------------
\* how many values carrying the unit the section holds
ValueCount(doc, sec) ==
  LET c == Carriers(doc, sec[1], sec[2])
  IN Cardinality({k \in DOMAIN c : IsValue(sec[2], c[k])})

\* the section is missing or holds fewer than two values
Short(doc, sec) == ~HasRow(doc, sec[1]) \/ ValueCount(doc, sec) < 2

EightKeys ==
  {"up_rate", "down_rate", "up_power", "down_power",
   "up_attenuation", "down_attenuation", "up_noisemargin", "down_noisemargin"}

(* C12: when a section of the page is missing or holds fewer than two values
   carrying its unit, the call of parse fails: no mapping is produced, nothing
   is printed and the run ends in error; a mapping that parse does return has
   exactly the eight keys. *)
C12_AllOrNothing ==
  [][pc = "parse" =>
       /\ (\E sec \in Sections : Short(page, sec)) =>
             /\ stats' = NoStats
             /\ err' # NoError
             /\ pc' = "exit" /\ exitStatus' = 1 /\ stdout' = <<>>
       /\ stats' # NoStats => DOMAIN stats' = EightKeys \cup {"kind"}]_vars

\* parse has failed on a saved page whose line rate section holds one value
\* and whose noise margin section is missing
C12_Witness ==
  /\ pc = "exit" /\ args.parse /\ config # NoConfig
  /\ HasRow(page, "Line Rate")
  /\ ValueCount(page, <<"Line Rate", "Mbps", "rate">>) = 1
  /\ ~HasRow(page, "Noise Margin")
  /\ stats = NoStats /\ exitStatus = 1 /\ stdout = <<>>

----------------------------------------------------------------------------
\* the requests of the current call that ask for a token
TokenRequests == {i \in DOMAIN wire : wire[i].path = CsrfPath}

(* C13: in a handshake the token is asked for once, by the first request, and
   the CSRFtoken field of the first POST and of the second POST both equal
   the body that request returned. *)
C13_OneTokenBothPosts ==
  /\ TokenRequests \subseteq {1}
  /\ \A i \in DOMAIN wire :
       wire[i].method = "POST" =>
         /\ TokenRequests = {1}
         /\ "CSRFtoken" \in DOMAIN wire[i].data
         /\ wire[i].data["CSRFtoken"] = [kind |-> "text", of |-> wire[1].resp.body]

\* both POSTs of a handshake have gone out with the token the modem gave
C13_Witness ==
  /\ Len(wire) >= 3
  /\ wire[1].resp.body = Rep("b", CsrfLen)
  /\ wire[2].method = "POST" /\ wire[3].method = "POST"
  /\ wire[3].data["CSRFtoken"].of = Rep("b", CsrfLen)

----------------------------------------------------------------------------
\* the first POST of the handshake was answered with a status other than 200
FirstPostRefused ==
  /\ HandshakeCall /\ Len(wire) >= 2
  /\ wire[2].resp.net /\ wire[2].resp.status # HttpOk

(* C14: when the first POST is answered with a status other than 200,
   connect fails with the error that carries this status, whatever the body
   is: the body is not decoded, and the proof POST is not sent. *)
C14_FirstPostStatus ==
  FirstPostRefused =>
    /\ err = Exc("Exception", "Error authenticating", wire[2].resp.status, Text_none)
    /\ Len(wire) = 2
    /\ proof = NoneVal
    /\ fsession = 0
    /\ pc \in {"idle", "exit", "fetch"}

\* the first POST was refused with a body that is no JSON
C14_Witness ==
  /\ FirstPostRefused
  /\ wire[2].resp.body = NotJson
  /\ err.code = wire[2].resp.status

----------------------------------------------------------------------------
\* the first POST of the handshake was answered 200 with a JSON object
ChallengeArrived ==
  /\ HandshakeCall /\ Len(wire) >= 2
  /\ wire[2].resp.net /\ wire[2].resp.status = HttpOk
  /\ wire[2].resp.body.kind = "object"

\* field f of the challenge is missing, no hex, or hex of no bytes
BadField(j, f) ==
  \/ ~In(f, j)
  \/ ~IsHex(j.fields[f])
  \/ Unhexlify(j.fields[f]) = <<>>

\* connect has failed on the response to the first POST
EndedAtChallenge ==
  /\ Len(wire) = 2
  /\ err # NoError
  /\ proof = NoneVal
  /\ fsession = 0
  /\ pc \in {"idle", "exit", "fetch"}

(* C15, as stated: when s or B is missing from the challenge, is not valid
   hex, or decodes to no bytes, connect fails before a proof is computed and
   does not send the proof POST. *)
C15_MalformedChallengeRejected ==
  (ChallengeArrived /\ \E f \in {"s", "B"} : BadField(wire[2].resp.body, f))
    => EndedAtChallenge

(* C16, as stated: when the B of the challenge is 0 modulo N, connect fails,
   no proof made from this B is sent and no session is stored. *)
C16_ZeroBRejected ==
  (/\ ChallengeArrived
   /\ \A f \in {"s", "B"} : In(f, wire[2].resp.body) /\ IsHex(wire[2].resp.body.fields[f])
   /\ BytesToLong(Unhexlify(wire[2].resp.body.fields["B"])) % SrpN = 0)
    => EndedAtChallenge

----------------------------------------------------------------------------
\* the requests of the current call that carry a proof
ProofRequests == {i \in DOMAIN wire : "M" \in DOMAIN wire[i].data}

(* C17: in a handshake the SRP user has the modem's k from before
   start_authentication on: the proof connect holds and every proof it sends
   were computed with that k, never with the derived one, the A it sent is
   that user's g^a, which no k enters, and k stays as set until the handshake
   is over. *)
C17_DeviceKThroughout ==
  /\ [](/\ pc = "auth2" =>
            /\ srp_user.k = "device"
            /\ proof.of.H.k = "device"
            /\ wire[2].data["A"] = Hexlify(PubA(srp_user.a))
        /\ \A i \in ProofRequests : wire[i].data["M"].of.H.k = "device")
  /\ [][pc = "auth2" => srp_user' \in {srp_user, NoneVal}]_vars

\* a proof has been sent, and it was computed with the modem's k
C17_Witness ==
  /\ Len(wire) >= 3
  /\ ProofRequests = {3}
  /\ wire[3].data["M"].of.H.k = "device"

----------------------------------------------------------------------------
\* how many cookies the responses to the first n requests of the call set
RECURSIVE CookiesSet(_)
CookiesSet(n) ==
  IF n = 0 THEN 0
  ELSE CookiesSet(n - 1) + (IF wire[n].resp.net /\ wire[n].resp.setcookie THEN 1 ELSE 0)

(* C18: the session fetch stores and uses for the page request is the one
   that sent the token request and both POSTs: all requests of a call go out
   on one session, a page request goes out on the stored session, and each
   request carries all cookies that the responses before it in the call have
   set, so the page request carries those of the handshake. *)
C18_OneTransport ==
  /\ \A i \in DOMAIN wire :
       /\ wire[i].sid = wire[1].sid
       /\ wire[i].path = PagePath => wire[i].sid = fsession
       /\ wire[i].cookies \subseteq jar[wire[i].sid]
       /\ i > 1 => wire[i - 1].cookies \subseteq wire[i].cookies
       /\ HandshakeCall => Cardinality(wire[i].cookies) = CookiesSet(i - 1)
  /\ (HandshakeCall /\ pc = "get_page") => fsession = wire[1].sid

\* the page request of a handshake call went out with the three cookies that
\* the token response and the responses to the two POSTs had set
C18_Witness ==
  /\ HandshakeCall /\ Len(wire) = 4
  /\ wire[4].path = PagePath /\ wire[4].sid = wire[1].sid
  /\ \A i \in 1..3 : wire[i].resp.setcookie
  /\ Cardinality(wire[4].cookies) = 3

----------------------------------------------------------------------------
\* the section is there and the first two strings carrying its unit are values
TwoValuesFirst(doc, sec) ==
  /\ HasRow(doc, sec[1])
  /\ Len(Carriers(doc, sec[1], sec[2])) >= 2
  /\ \A k \in 1..2 : IsValue(sec[2], Carriers(doc, sec[1], sec[2])[k])

(* C19, as stated: when a section holds more than two values carrying the
   unit, parse takes the first two in document order, the first as the
   upstream and the second as the downstream value, and does not fail. *)
C19_FirstTwoOfMany ==
  (Parsed /\ \A sec \in Sections : TwoValuesFirst(page, sec)) =>
     /\ stats # NoStats
     /\ \A sec \in Sections :
          /\ UpOf(stats, sec[3]) = Carriers(page, sec[1], sec[2])[1].val
          /\ DownOf(stats, sec[3]) = Carriers(page, sec[1], sec[2])[2].val

----------------------------------------------------------------------------
(* C20: once fetch has stored a session, the Fetcher keeps that session
   whatever happens: a later call of fetch goes straight to the page request,
   its only request, sent on the stored session, with no token request and
   no POST, and the stored session is neither cleared nor replaced, whatever
   the page request returns. *)
C20_SessionReused ==
  /\ []((wire # <<>> /\ ~HandshakeCall) =>
          /\ Len(wire) = 1
          /\ wire[1].method = "GET" /\ wire[1].path = PagePath
          /\ wire[1].sid = fsession /\ fsession # 0)
  /\ [][/\ fsession # 0 => fsession' = fsession
        /\ (pc = "fetch" /\ fsession # 0) => (pc' = "get_page" /\ wire' = <<>>)
        /\ (pc = "get_page" /\ wire = <<>>) =>
             /\ Len(wire') = 1 /\ wire'[1].path = PagePath
             /\ pc' \in {"idle", "parse", "exit"}]_vars

\* a second call of fetch on an authenticated Fetcher has sent the page
\* request alone, was answered 404, and the session is still the stored one
C20_Witness ==
  /\ calls = 2 /\ pc = "idle"
  /\ fsession = 1
  /\ Len(wire) = 1 /\ wire[1].path = PagePath /\ wire[1].sid = 1
  /\ wire[1].resp.net /\ wire[1].resp.status = 404

====
